---- MODULE Spec2Model ----
(***************************************************************************)
(* A model of target/hexagon/cpu.c: the Hexagon CPU state object, its      *)
(* register dump (hexagon_dump), the predicate alias (read_p3_0), the      *)
(* stack-pointer adjustment of the dump (adjust_stack_ptrs), the fault     *)
(* classifier of the user-only build (hexagon_tlb_fill) and the            *)
(* reset / realize handlers.                                               *)
(*                                                                         *)
(* target_ulong is 32 bits wide on Hexagon.  TLC's integers are 32-bit     *)
(* signed, so a target_ulong is held as a pair <<hi, lo>> of 16-bit        *)
(* halves, and its arithmetic (modulo 2^32) is written out on the halves.  *)
(***************************************************************************)
EXTENDS Integers, Sequences, FiniteSets, TLC

(* ------------------------------------------------------------------ *)
(* target_ulong arithmetic                                             *)
(* ------------------------------------------------------------------ *)

\* width of target_ulong (the lldb-stack-adjust property is a qdev_prop_uint32)
TARGET_LONG_BITS == 32

Half == 2 ^ (TARGET_LONG_BITS \div 2)

IsWord(w) == /\ w \in Seq(0 .. Half - 1)
             /\ Len(w) = 2

\* the word whose eight hexadecimal digits are d (most significant first)
Hex(d) == << ((d[1] * 16 + d[2]) * 16 + d[3]) * 16 + d[4],
             ((d[5] * 16 + d[6]) * 16 + d[7]) * 16 + d[8] >>

Zero == <<0, 0>>

\* a + b modulo 2^32
WAdd(a, b) == LET lo == a[2] + b[2]
              IN  << (a[1] + b[1] + (lo \div Half)) % Half, lo % Half >>

\* a - b modulo 2^32
WSub(a, b) == LET lo == a[2] - b[2]
                  borrow == IF lo < 0 THEN 1 ELSE 0
              IN  << (a[1] - b[1] - borrow) % Half, lo % Half >>

\* unsigned a >= b
WGe(a, b) == \/ a[1] > b[1]
             \/ (a[1] = b[1] /\ a[2] >= b[2])

\* (target_ulong)x of an int32_t x: the value modulo 2^32
Int32ToWord(x) == << (x \div Half) % Half, x % Half >>

\* x << 8 of an int32_t x, wrapping in two's complement
Int32Shl8(x) == LET low24 == x % (2 ^ 24)
                IN  IF low24 >= 2 ^ 23 THEN (low24 - 2 ^ 24) * 256
                                       ELSE low24 * 256

\* a | b of two bytes
RECURSIVE ByteOr(_, _, _)
ByteOr(a, b, bits) ==
    IF bits = 0 THEN 0
    ELSE (IF a % 2 = 1 \/ b % 2 = 1 THEN 1 ELSE 0)
         + 2 * ByteOr(a \div 2, b \div 2, bits - 1)

\* x | b of an int32_t x and a byte b (only the low byte of x can change)
Int32OrByte(x, b) == (x - (x % 256)) + ByteOr(x % 256, b, 8)

\* "%08x" (TARGET_FMT_lx): eight hexadecimal digits, most significant first
HexDigits4(h) == << (h \div 4096) % 16, (h \div 256) % 16, (h \div 16) % 16, h % 16 >>

TARGET_FMT_lx(w) == HexDigits4(w[1]) \o HexDigits4(w[2])

(* ------------------------------------------------------------------ *)
(* Register names and numbers                                          *)
(* ------------------------------------------------------------------ *)

hexagon_regnames ==
  << "r0",  "r1",  "r2",  "r3",  "r4",   "r5",  "r6",  "r7",
     "r8",  "r9",  "r10", "r11", "r12",  "r13", "r14", "r15",
     "r16", "r17", "r18", "r19", "r20",  "r21", "r22", "r23",
     "r24", "r25", "r26", "r27", "r28",  "r29", "r30", "r31",
     "sa0", "lc0", "sa1", "lc1", "p3_0", "c5",  "m0",  "m1",
     "usr", "pc",  "ugp", "gp",  "cs0",  "cs1", "c14", "c15",
     "c16", "c17", "c18", "c19", "pkt_cnt", "insn_cnt", "c22", "c23",
     "c24", "c25", "c26", "c27", "c28",  "c29", "c30", "c31" >>

TOTAL_PER_THREAD_REGS == Len(hexagon_regnames)

\* the number of the register called name in hexagon_regnames
RegNum(name) == CHOOSE n \in 0 .. TOTAL_PER_THREAD_REGS - 1 :
                    hexagon_regnames[n + 1] = name

HEX_REG_SP   == RegNum("r29")
HEX_REG_SA0  == RegNum("sa0")
HEX_REG_LC0  == RegNum("lc0")
HEX_REG_SA1  == RegNum("sa1")
HEX_REG_LC1  == RegNum("lc1")
HEX_REG_P3_0 == RegNum("p3_0")
HEX_REG_M0   == RegNum("m0")
HEX_REG_M1   == RegNum("m1")
HEX_REG_USR  == RegNum("usr")
HEX_REG_PC   == RegNum("pc")
HEX_REG_UGP  == RegNum("ugp")
HEX_REG_GP   == RegNum("gp")

NUM_PREGS == 4

\* how many times hexagon_cpu_realize is called in a run
MaxRealize == 2

(* ------------------------------------------------------------------ *)
(* State                                                               *)
(* ------------------------------------------------------------------ *)

VARIABLES
    gpr,               \* env->gpr[TOTAL_PER_THREAD_REGS]
    pred,              \* env->pred[NUM_PREGS]
    fp_status,         \* env->fp_status
    last_pc_dumped,    \* env->last_pc_dumped
    stack_start,       \* env->stack_start
    lldb_compat,       \* cpu->lldb_compat, property "lldb-compat"
    lldb_stack_adjust, \* cpu->lldb_stack_adjust, property "lldb-stack-adjust"
    exception_index,   \* cs->exception_index
    errp,              \* *errp of the most recent hexagon_cpu_realize
    realizes,          \* calls of hexagon_cpu_realize so far
    realized,          \* those of them that ran to the end without an error
    out,               \* the lines the most recent operation wrote to FILE *f
    calls,             \* the calls to other components the most recent operation made
    op,                \* the most recent operation: name, argument, result
    prev,              \* the operation before it: name, whether it wrote lines
    dump_pc            \* the program counter at the most recent hexagon_dump (0 before
                       \* the first)

env == <<gpr, pred, fp_status, last_pc_dumped, stack_start>>
props == <<lldb_compat, lldb_stack_adjust>>
lifecycle == <<errp, realizes, realized>>
vars == <<gpr, pred, fp_status, last_pc_dumped, stack_start, lldb_compat,
          lldb_stack_adjust, exception_index, errp, realizes, realized, out, calls,
          op, prev, dump_pc>>

(* ------------------------------------------------------------------ *)
(* adjust_stack_ptrs, read_p3_0, print_reg                             *)
(* ------------------------------------------------------------------ *)

stack_size == Hex(<<0,0,0,1, 0,0,0,0>>)

\* adjust_stack_ptrs with the lower edge of the window excluded (> for >=)
adjust_stack_ptrs_exclusive(addr) ==
    LET stack_adjust == lldb_stack_adjust
    IN  IF stack_adjust = Zero
        THEN addr
        ELSE IF /\ WGe(WAdd(stack_start, Hex(<<0,0,0,0, 1,0,0,0>>)), addr)
                /\ WGe(addr, WSub(stack_start, stack_size))
                /\ addr # WSub(stack_start, stack_size)
             THEN WSub(addr, stack_adjust)
             ELSE addr

\* adjust_stack_ptrs with window bounds that stop at 0 and at 0xFFFFFFFF instead of
\* wrapping
adjust_stack_ptrs_saturating(addr) ==
    LET stack_adjust == lldb_stack_adjust
        top == Hex(<<15,15,15,15, 15,15,15,15>>)
        upper == IF WGe(WAdd(stack_start, Hex(<<0,0,0,0, 1,0,0,0>>)), stack_start)
                 THEN WAdd(stack_start, Hex(<<0,0,0,0, 1,0,0,0>>)) ELSE top
        lower == IF WGe(stack_start, stack_size)
                 THEN WSub(stack_start, stack_size) ELSE Zero
    IN  IF stack_adjust = Zero
        THEN addr
        ELSE IF WGe(upper, addr) /\ WGe(addr, lower)
             THEN WSub(addr, stack_adjust)
             ELSE addr

adjust_stack_ptrs(addr) ==
    LET stack_adjust == lldb_stack_adjust
    IN  IF stack_adjust = Zero
        THEN addr
        ELSE IF /\ WGe(WAdd(stack_start, Hex(<<0,0,0,0, 1,0,0,0>>)), addr)
                /\ WGe(addr, WSub(stack_start, stack_size))
             THEN WSub(addr, stack_adjust)
             ELSE addr

\* the loop of read_p3_0 taking the predicates in ascending order
RECURSIVE read_p3_0_loop_ascending(_, _)
read_p3_0_loop_ascending(control_reg, i) ==
    IF i < 0 THEN control_reg
    ELSE read_p3_0_loop_ascending(
             Int32OrByte(Int32Shl8(control_reg), pred[NUM_PREGS - 1 - i][2] % 256), i - 1)

\* the body of the for loop of read_p3_0, from index i down to 0
RECURSIVE read_p3_0_loop(_, _)
read_p3_0_loop(control_reg, i) ==
    IF i < 0 THEN control_reg
    ELSE read_p3_0_loop(Int32OrByte(Int32Shl8(control_reg), pred[i][2] % 256), i - 1)

read_p3_0 == Int32ToWord(read_p3_0_loop(0, NUM_PREGS - 1))

\* print_reg adjusting the control registers too
print_reg_adjusts_all(regnum) ==
    LET value == IF regnum = HEX_REG_P3_0
                 THEN read_p3_0
                 ELSE adjust_stack_ptrs(gpr[regnum])
    IN  << hexagon_regnames[regnum + 1], TARGET_FMT_lx(value) >>

\* print_reg handing the register's number, not its value, to adjust_stack_ptrs
print_reg_regnum(regnum) ==
    LET value == IF regnum = HEX_REG_P3_0
                 THEN read_p3_0
                 ELSE IF regnum < 32 THEN adjust_stack_ptrs(<<0, regnum>>)
                                     ELSE gpr[regnum]
    IN  << hexagon_regnames[regnum + 1], TARGET_FMT_lx(value) >>

\* the line print_reg writes: the register's name and the digits of its value
print_reg(regnum) ==
    LET value == IF regnum = HEX_REG_P3_0
                 THEN read_p3_0
                 ELSE IF regnum < 32 THEN adjust_stack_ptrs(gpr[regnum])
                                     ELSE gpr[regnum]
    IN  << hexagon_regnames[regnum + 1], TARGET_FMT_lx(value) >>

NoOp == [name |-> "none", arg |-> <<>>, ret |-> <<>>, returned |-> TRUE]

NoPrev == [name |-> "other", wrote |-> FALSE]

\* a line of fixed text
Text(s) == << s, <<>> >>

\* the dump with ugp before gp, the order of hexagon_regnames
dump_lines_ugp_first ==
    << Text("General Purpose Registers = {") >>
    \o [i \in 1 .. 32 |-> print_reg(i - 1)]
    \o << print_reg(HEX_REG_SA0), print_reg(HEX_REG_LC0),
          print_reg(HEX_REG_SA1), print_reg(HEX_REG_LC1),
          print_reg(HEX_REG_M0),  print_reg(HEX_REG_M1),
          print_reg(HEX_REG_USR), print_reg(HEX_REG_P3_0),
          print_reg(HEX_REG_UGP), print_reg(HEX_REG_GP),
          print_reg(HEX_REG_PC),
          << "cause", <<0,0,0,0, 0,0,13,11>> >>,
          << "badva", <<0,0,0,0, 0,0,0,0>> >>,
          << "cs0",   <<0,0,0,0, 0,0,0,0>> >>,
          << "cs1",   <<0,0,0,0, 0,0,0,0>> >>,
          Text("}") >>

\* the lines hexagon_dump writes when it does not return early
dump_lines ==
    << Text("General Purpose Registers = {") >>
    \o [i \in 1 .. 32 |-> print_reg(i - 1)]
    \o << print_reg(HEX_REG_SA0), print_reg(HEX_REG_LC0),
          print_reg(HEX_REG_SA1), print_reg(HEX_REG_LC1),
          print_reg(HEX_REG_M0),  print_reg(HEX_REG_M1),
          print_reg(HEX_REG_USR), print_reg(HEX_REG_P3_0),
          print_reg(HEX_REG_GP),  print_reg(HEX_REG_UGP),
          print_reg(HEX_REG_PC),
          << "cause", <<0,0,0,0, 0,0,13,11>> >>,
          << "badva", <<0,0,0,0, 0,0,0,0>> >>,
          << "cs0",   <<0,0,0,0, 0,0,0,0>> >>,
          << "cs1",   <<0,0,0,0, 0,0,0,0>> >>,
          Text("}") >>

(* ------------------------------------------------------------------ *)
(* Operations                                                          *)
(* ------------------------------------------------------------------ *)

\* what every operation records about itself, and whether the one before it was a
\* dump that wrote lines
Record(name, arg, ret, returned) ==
    /\ op' = [name |-> name, arg |-> arg, ret |-> ret, returned |-> returned]
    /\ prev' = IF op.name = "hexagon_dump"
               THEN [name |-> "hexagon_dump", wrote |-> out # <<>>]
               ELSE NoPrev
    /\ dump_pc' = IF name = "hexagon_dump" THEN gpr[HEX_REG_PC] ELSE dump_pc


\* hexagon_dump storing last_pc_dumped whether or not lldb_compat is set
hexagon_dump_always_records ==
    /\ IF lldb_compat /\ gpr[HEX_REG_PC] = last_pc_dumped
       THEN /\ out' = <<>>
            /\ UNCHANGED last_pc_dumped
       ELSE /\ last_pc_dumped' = gpr[HEX_REG_PC]
            /\ out' = dump_lines
    /\ calls' = <<>>
    /\ Record("hexagon_dump", <<>>, <<>>, TRUE)
    /\ UNCHANGED <<gpr, pred, fp_status, stack_start, props, exception_index,
                   lifecycle>>

\* hexagon_dump without the store to last_pc_dumped
hexagon_dump_no_record ==
    /\ IF lldb_compat /\ gpr[HEX_REG_PC] = last_pc_dumped
       THEN out' = <<>>
       ELSE out' = dump_lines
    /\ calls' = <<>>
    /\ Record("hexagon_dump", <<>>, <<>>, TRUE)
    /\ UNCHANGED <<gpr, pred, fp_status, last_pc_dumped, stack_start, props,
                   exception_index, lifecycle>>

\* hexagon_dump storing the adjusted values back into the registers it prints
hexagon_dump_adjusts_regs ==
    /\ IF lldb_compat /\ gpr[HEX_REG_PC] = last_pc_dumped
       THEN /\ out' = <<>>
            /\ UNCHANGED <<last_pc_dumped, gpr>>
       ELSE /\ last_pc_dumped' = IF lldb_compat THEN gpr[HEX_REG_PC]
                                                ELSE last_pc_dumped
            /\ out' = dump_lines
            /\ gpr' = [r \in 0 .. TOTAL_PER_THREAD_REGS - 1 |->
                          IF r < 32 THEN adjust_stack_ptrs(gpr[r]) ELSE gpr[r]]
    /\ calls' = <<>>
    /\ Record("hexagon_dump", <<>>, <<>>, TRUE)
    /\ UNCHANGED <<pred, fp_status, stack_start, props, exception_index, lifecycle>>

hexagon_dump ==
    /\ IF lldb_compat /\ gpr[HEX_REG_PC] = last_pc_dumped
       THEN /\ out' = <<>>
            /\ UNCHANGED last_pc_dumped
       ELSE /\ last_pc_dumped' = IF lldb_compat THEN gpr[HEX_REG_PC]
                                                ELSE last_pc_dumped
            /\ out' = dump_lines
    /\ calls' = <<>>
    /\ Record("hexagon_dump", <<>>, <<>>, TRUE)
    /\ UNCHANGED <<gpr, pred, fp_status, stack_start, props, exception_index,
                   lifecycle>>

\* (target_ulong)value of a vaddr (64 bits, four halves, most significant first)
VaddrToWord(value) == << value[3], value[4] >>

\* a set_pc that also moves last_pc_dumped along with the program counter
hexagon_cpu_set_pc_and_last(value) ==
    /\ gpr' = [gpr EXCEPT ![HEX_REG_PC] = VaddrToWord(value)]
    /\ last_pc_dumped' = VaddrToWord(value)
    /\ out' = <<>>
    /\ calls' = <<>>
    /\ Record("hexagon_cpu_set_pc", value, <<>>, TRUE)
    /\ UNCHANGED <<pred, fp_status, stack_start, props, exception_index, lifecycle>>

hexagon_cpu_set_pc(value) ==
    /\ gpr' = [gpr EXCEPT ![HEX_REG_PC] = VaddrToWord(value)]
    /\ out' = <<>>
    /\ calls' = <<>>
    /\ Record("hexagon_cpu_set_pc", value, <<>>, TRUE)
    /\ UNCHANGED <<pred, fp_status, last_pc_dumped, stack_start, props,
                   exception_index, lifecycle>>

hexagon_cpu_synchronize_from_tb(tb_pc) ==
    /\ gpr' = [gpr EXCEPT ![HEX_REG_PC] = tb_pc]
    /\ out' = <<>>
    /\ calls' = <<>>
    /\ Record("hexagon_cpu_synchronize_from_tb", tb_pc, <<>>, TRUE)
    /\ UNCHANGED <<pred, fp_status, last_pc_dumped, stack_start, props,
                   exception_index, lifecycle>>

restore_state_to_opc(data0) ==
    /\ gpr' = [gpr EXCEPT ![HEX_REG_PC] = data0]
    /\ out' = <<>>
    /\ calls' = <<>>
    /\ Record("restore_state_to_opc", data0, <<>>, TRUE)
    /\ UNCHANGED <<pred, fp_status, last_pc_dumped, stack_start, props,
                   exception_index, lifecycle>>

\* the reset without the call of set_float_detect_tininess
reset_fp_status_nan_only(status) == [status EXCEPT !.default_nan_mode = 1]

\* set_default_nan_mode(1, ..) and set_float_detect_tininess(before_rounding, ..)
reset_fp_status(status) ==
    [status EXCEPT !.default_nan_mode = 1,
                   !.float_detect_tininess = "float_tininess_before_rounding"]

\* a reset that also clears the registers, as the reset of other targets does
hexagon_cpu_reset_clears_env ==
    /\ fp_status' = reset_fp_status(fp_status)
    /\ gpr' = [r \in 0 .. TOTAL_PER_THREAD_REGS - 1 |-> Zero]
    /\ pred' = [i \in 0 .. NUM_PREGS - 1 |-> Zero]
    /\ last_pc_dumped' = Zero
    /\ out' = <<>>
    /\ calls' = << <<"parent_reset", "">> >>
    /\ Record("hexagon_cpu_reset", <<>>, <<>>, TRUE)
    /\ UNCHANGED <<stack_start, props, exception_index, lifecycle>>

hexagon_cpu_reset ==
    /\ fp_status' = reset_fp_status(fp_status)
    /\ out' = <<>>
    /\ calls' = << <<"parent_reset", "">> >>
    /\ Record("hexagon_cpu_reset", <<>>, <<>>, TRUE)
    /\ UNCHANGED <<gpr, pred, last_pc_dumped, stack_start, props,
                   exception_index, lifecycle>>

\* a realize that refuses to run on a core that is realized already
hexagon_cpu_realize_once(local_err, parent_err) ==
    /\ realizes < MaxRealize
    /\ realizes' = realizes + 1
    /\ IF realized > 0
       THEN /\ calls' = <<>>
            /\ errp' = "error"
            /\ UNCHANGED <<fp_status, realized>>
       ELSE IF local_err # "NULL"
       THEN /\ calls' = << <<"cpu_exec_realizefn", "">> >>
            /\ errp' = local_err
            /\ UNCHANGED <<fp_status, realized>>
       ELSE /\ calls' = << <<"cpu_exec_realizefn", "">>, <<"qemu_init_vcpu", "">>,
                           <<"cpu_reset", "">>, <<"parent_realize", "">> >>
            /\ fp_status' = reset_fp_status(fp_status)
            /\ errp' = parent_err
            /\ realized' = IF parent_err = "NULL" THEN realized + 1 ELSE realized
    /\ out' = <<>>
    /\ Record("hexagon_cpu_realize", <<local_err, parent_err>>, <<>>, TRUE)
    /\ UNCHANGED <<gpr, pred, last_pc_dumped, stack_start, props, exception_index>>

\* a realize that records the stack start and resets as its last step
hexagon_cpu_realize_reset_last(local_err, parent_err) ==
    /\ realizes < MaxRealize
    /\ realizes' = realizes + 1
    /\ IF local_err # "NULL"
       THEN /\ calls' = << <<"cpu_exec_realizefn", "">> >>
            /\ errp' = local_err
            /\ UNCHANGED <<fp_status, realized, stack_start>>
       ELSE /\ calls' = << <<"cpu_exec_realizefn", "">>, <<"qemu_init_vcpu", "">>,
                           <<"parent_realize", "">>, <<"cpu_reset", "">> >>
            /\ stack_start' = gpr[HEX_REG_SP]
            /\ fp_status' = reset_fp_status(fp_status)
            /\ errp' = parent_err
            /\ realized' = IF parent_err = "NULL" THEN realized + 1 ELSE realized
    /\ out' = <<>>
    /\ Record("hexagon_cpu_realize", <<local_err, parent_err>>, <<>>, TRUE)
    /\ UNCHANGED <<gpr, pred, last_pc_dumped, props, exception_index>>

\* a realize that reports the error of cpu_exec_realizefn but carries on
hexagon_cpu_realize_carries_on(local_err, parent_err) ==
    /\ realizes < MaxRealize
    /\ realizes' = realizes + 1
    /\ calls' = << <<"cpu_exec_realizefn", "">>, <<"qemu_init_vcpu", "">>,
                   <<"cpu_reset", "">>, <<"parent_realize", "">> >>
    /\ fp_status' = reset_fp_status(fp_status)
    /\ errp' = IF local_err # "NULL" THEN local_err ELSE parent_err
    /\ realized' = IF local_err = "NULL" /\ parent_err = "NULL" THEN realized + 1
                                                                 ELSE realized
    /\ out' = <<>>
    /\ Record("hexagon_cpu_realize", <<local_err, parent_err>>, <<>>, TRUE)
    /\ UNCHANGED <<gpr, pred, last_pc_dumped, stack_start, props, exception_index>>

\* local_err: what cpu_exec_realizefn reports; parent_err: what parent_realize reports
hexagon_cpu_realize(local_err, parent_err) ==
    /\ realizes < MaxRealize
    /\ realizes' = realizes + 1
    /\ IF local_err # "NULL"
       THEN /\ calls' = << <<"cpu_exec_realizefn", "">> >>
            /\ errp' = local_err
            /\ UNCHANGED <<fp_status, realized>>
       ELSE /\ calls' = << <<"cpu_exec_realizefn", "">>, <<"qemu_init_vcpu", "">>,
                           <<"cpu_reset", "">>, <<"parent_realize", "">> >>
            /\ fp_status' = reset_fp_status(fp_status)
            /\ errp' = parent_err
            /\ realized' = IF parent_err = "NULL" THEN realized + 1 ELSE realized
    /\ out' = <<>>
    /\ Record("hexagon_cpu_realize", <<local_err, parent_err>>, <<>>, TRUE)
    /\ UNCHANGED <<gpr, pred, last_pc_dumped, stack_start, props, exception_index>>

\* the switch of hexagon_tlb_fill without its break statements
hexagon_tlb_fill_fallthrough(access_type, retaddr) ==
    /\ exception_index' = "HEX_EXCP_PRIV_NO_UWRITE"
    /\ calls' = << <<"cpu_loop_exit_restore", retaddr>> >>
    /\ out' = <<>>
    /\ Record("hexagon_tlb_fill", <<access_type, retaddr>>, <<>>, FALSE)
    /\ UNCHANGED <<env, props, lifecycle>>

MMUAccessType == {"MMU_DATA_LOAD", "MMU_DATA_STORE", "MMU_INST_FETCH"}

hexagon_tlb_fill(access_type, retaddr) ==
    /\ exception_index' =
           CASE access_type = "MMU_INST_FETCH" -> "HEX_EXCP_FETCH_NO_UPAGE"
             [] access_type = "MMU_DATA_LOAD"  -> "HEX_EXCP_PRIV_NO_UREAD"
             [] access_type = "MMU_DATA_STORE" -> "HEX_EXCP_PRIV_NO_UWRITE"
             [] OTHER -> exception_index
    /\ calls' = << <<"cpu_loop_exit_restore", retaddr>> >>
    /\ out' = <<>>
    /\ Record("hexagon_tlb_fill", <<access_type, retaddr>>, <<>>, FALSE)
    /\ UNCHANGED <<env, props, lifecycle>>

\* print_reg's two helpers, called on their own
call_adjust_stack_ptrs(addr) ==
    /\ out' = <<>>
    /\ calls' = <<>>
    /\ Record("adjust_stack_ptrs", addr, adjust_stack_ptrs(addr), TRUE)
    /\ UNCHANGED <<env, props, exception_index, lifecycle>>

call_read_p3_0 ==
    /\ out' = <<>>
    /\ calls' = <<>>
    /\ Record("read_p3_0", <<>>, read_p3_0, TRUE)
    /\ UNCHANGED <<env, props, exception_index, lifecycle>>

(* ------------------------------------------------------------------ *)
(* The other components: generated code and the softfloat helpers      *)
(* ------------------------------------------------------------------ *)

\* executed guest code (or the debugger stub) stores a register
guest_write_gpr(regnum, value) ==
    /\ gpr' = [gpr EXCEPT ![regnum] = value]
    /\ out' = <<>>
    /\ calls' = <<>>
    /\ Record("guest_write_gpr", <<regnum>>, <<>>, TRUE)
    /\ UNCHANGED <<pred, fp_status, last_pc_dumped, stack_start, props,
                   exception_index, lifecycle>>

\* executed guest code stores a predicate
guest_write_pred(i, value) ==
    /\ pred' = [pred EXCEPT ![i] = value]
    /\ out' = <<>>
    /\ calls' = <<>>
    /\ Record("guest_write_pred", <<i>>, <<>>, TRUE)
    /\ UNCHANGED <<gpr, fp_status, last_pc_dumped, stack_start, props,
                   exception_index, lifecycle>>

\* executed floating-point code reconfigures the softfloat status
guest_set_fp_status(status) ==
    /\ fp_status' = status
    /\ out' = <<>>
    /\ calls' = <<>>
    /\ Record("guest_set_fp_status", <<>>, <<>>, TRUE)
    /\ UNCHANGED <<gpr, pred, last_pc_dumped, stack_start, props,
                   exception_index, lifecycle>>

(* ------------------------------------------------------------------ *)
(* Inputs                                                              *)
(* ------------------------------------------------------------------ *)

FpStatuses == [default_nan_mode : {0, 1},
               float_detect_tininess : {"float_tininess_after_rounding",
                                        "float_tininess_before_rounding"}]

\* 0x00000042 and 0x10000000
Values == { Hex(<<0,0,0,0, 0,0,4,2>>), Hex(<<1,0,0,0, 0,0,0,0>>) }

\* the registers guest code writes: r5 and the stack pointer
GuestRegs == { 5, HEX_REG_SP }

\* the default (never recorded) stack start, and one in the middle of memory
StackStarts == { Zero, Hex(<<1,0,0,0, 0,0,0,0>>) }

\* the default lldb-stack-adjust, and 0x100
StackAdjusts == { Zero, Hex(<<0,0,0,0, 0,1,0,0>>) }

\* the values above as 64-bit vaddrs, and 0x0000000100000042
Vaddrs == { <<0, 0>> \o value : value \in Values \cup {Zero} }
          \cup { <<0, 1>> \o Hex(<<0,0,0,0, 0,0,4,2>>) }

RetAddrs == { "retaddr_1", "retaddr_2" }

Errors == { "NULL", "error" }

(* ------------------------------------------------------------------ *)
(* Specifications                                                      *)
(* ------------------------------------------------------------------ *)

\* the object as hexagon_cpu_init leaves it: zeroed state, the two properties set
Init ==
    /\ gpr = [r \in 0 .. TOTAL_PER_THREAD_REGS - 1 |-> Zero]
    /\ pred = [i \in 0 .. NUM_PREGS - 1 |-> Zero]
    /\ fp_status = [default_nan_mode |-> 0,
                    float_detect_tininess |-> "float_tininess_after_rounding"]
    /\ last_pc_dumped = Zero
    /\ stack_start \in StackStarts
    /\ lldb_compat \in BOOLEAN
    /\ lldb_stack_adjust \in StackAdjusts
    /\ exception_index = "unset"
    /\ errp = "NULL"
    /\ realizes = 0
    /\ realized = 0
    /\ out = <<>>
    /\ calls = <<>>
    /\ op = NoOp
    /\ prev = NoPrev
    /\ dump_pc = Zero

\* the register dump, with the program counter and the registers changing under it
Next ==
    \/ hexagon_dump
    \/ hexagon_cpu_reset
    \/ \E value \in Vaddrs : hexagon_cpu_set_pc(value)
    \/ \E value \in Values \cup {Zero} : hexagon_cpu_synchronize_from_tb(value)
    \/ \E value \in Values \cup {Zero} : restore_state_to_opc(value)
    \/ \E regnum \in GuestRegs, value \in Values \cup {Zero} :
           guest_write_gpr(regnum, value)
    \/ \E i \in {0, NUM_PREGS - 1} : guest_write_pred(i, Hex(<<0,0,0,0, 0,0,15,15>>))

Spec == Init /\ [][Next]_vars

\* reset and realize, with guest code changing the state between them
NextLifecycle ==
    \/ hexagon_cpu_reset
    \/ \E local_err \in Errors, parent_err \in Errors :
           hexagon_cpu_realize(local_err, parent_err)
    \/ \E status \in FpStatuses : guest_set_fp_status(status)
    \/ \E regnum \in {HEX_REG_SP, HEX_REG_PC} :
           guest_write_gpr(regnum, Hex(<<0,0,0,0, 0,0,4,2>>))
    \/ \E i \in {0, NUM_PREGS - 1} : guest_write_pred(i, Hex(<<0,0,0,0, 0,0,15,15>>))

SpecLifecycle == Init /\ [][NextLifecycle]_vars

\* the fault classifier, with guest code running between the faults
NextFault ==
    \/ \E access_type \in MMUAccessType, retaddr \in RetAddrs :
           hexagon_tlb_fill(access_type, retaddr)
    \/ \E regnum \in {5, HEX_REG_PC} : guest_write_gpr(regnum, Hex(<<0,0,0,0, 0,0,4,2>>))

SpecFault == Init /\ [][NextFault]_vars

\* adjust_stack_ptrs on its own: stack starts and addresses at the edges of the
\* window and of the 32-bit range
AdjStackStarts == { Zero,
                    Hex(<<1,0,0,0, 0,0,0,0>>),
                    Hex(<<0,0,0,0, 15,0,0,0>>),
                    Hex(<<0,0,0,1, 0,0,0,0>>),
                    Hex(<<15,15,15,15, 14,15,15,15>>),
                    Hex(<<15,15,15,15, 15,0,0,0>>) }

AdjStackAdjusts == { Zero,
                     Hex(<<0,0,0,0, 0,1,0,0>>),
                     Hex(<<2,0,0,0, 0,0,0,0>>) }

One == Hex(<<0,0,0,0, 0,0,0,1>>)

AdjAddrs ==
    { Zero, Hex(<<0,0,0,0, 0,0,4,2>>), Hex(<<15,15,15,15, 15,15,15,15>>) }
    \cup UNION { { s,
                   WSub(s, stack_size),
                   WSub(WSub(s, stack_size), One),
                   WAdd(s, Hex(<<0,0,0,0, 1,0,0,0>>)),
                   WAdd(WAdd(s, Hex(<<0,0,0,0, 1,0,0,0>>)), One) } : s \in AdjStackStarts }

InitAdjust ==
    /\ gpr = [r \in 0 .. TOTAL_PER_THREAD_REGS - 1 |-> Zero]
    /\ pred = [i \in 0 .. NUM_PREGS - 1 |-> Zero]
    /\ fp_status = [default_nan_mode |-> 0,
                    float_detect_tininess |-> "float_tininess_after_rounding"]
    /\ last_pc_dumped = Zero
    /\ stack_start \in AdjStackStarts
    /\ lldb_compat = FALSE
    /\ lldb_stack_adjust \in AdjStackAdjusts
    /\ exception_index = "unset"
    /\ errp = "NULL"
    /\ realizes = 0
    /\ realized = 0
    /\ out = <<>>
    /\ calls = <<>>
    /\ op = NoOp
    /\ prev = NoPrev
    /\ dump_pc = Zero

NextAdjust == \E addr \in AdjAddrs : call_adjust_stack_ptrs(addr)

SpecAdjust == InitAdjust /\ [][NextAdjust]_vars

\* read_p3_0 on its own: predicates with and without bit 7, and with bits above
\* the low byte
PredValues == { Zero,
                One,
                Hex(<<0,0,0,0, 0,0,7,15>>),
                Hex(<<0,0,0,0, 0,0,8,0>>),
                Hex(<<0,0,0,0, 0,0,15,15>>),
                Hex(<<0,0,0,0, 0,1,10,11>>) }

InitPred ==
    /\ gpr = [r \in 0 .. TOTAL_PER_THREAD_REGS - 1 |-> Zero]
    /\ pred \in [0 .. NUM_PREGS - 1 -> PredValues]
    /\ fp_status = [default_nan_mode |-> 0,
                    float_detect_tininess |-> "float_tininess_after_rounding"]
    /\ last_pc_dumped = Zero
    /\ stack_start = Zero
    /\ lldb_compat = FALSE
    /\ lldb_stack_adjust = Zero
    /\ exception_index = "unset"
    /\ errp = "NULL"
    /\ realizes = 0
    /\ realized = 0
    /\ out = <<>>
    /\ calls = <<>>
    /\ op = NoOp
    /\ prev = NoPrev
    /\ dump_pc = Zero

NextPred == call_read_p3_0

SpecPred == InitPred /\ [][NextPred]_vars

(* ------------------------------------------------------------------ *)
(* Properties                                                          *)
(* ------------------------------------------------------------------ *)

Dumped == op.name = "hexagon_dump"

\* byte i (0 the least significant) of a word
ByteOf(w, i) == CASE i = 0 -> w[2] % 256
                  [] i = 1 -> w[2] \div 256
                  [] i = 2 -> w[1] % 256
                  [] i = 3 -> w[1] \div 256

\* C1 as stated: of two dumps in a row (the program counter unchanged between them)
\* with lldb_compat set, the first writes lines and the second writes none; with
\* lldb_compat clear both write lines.
C1_FirstDumpAlwaysWrites ==
    Dumped /\ prev.name = "hexagon_dump" =>
        IF lldb_compat THEN prev.wrote /\ out = <<>>
                       ELSE prev.wrote /\ out # <<>>

\* C1, amended: with lldb_compat set a dump writes lines exactly when the program
\* counter differs from last_pc_dumped at the call, so the second of two dumps in
\* a row writes none (and the first writes lines only if the program counter had
\* changed since the dump before it); with lldb_compat clear every dump writes lines.
C1_DumpTwice ==
    [][ op'.name = "hexagon_dump" =>
          IF lldb_compat
          THEN /\ (out' # <<>>) <=> (gpr[HEX_REG_PC] # last_pc_dumped)
               /\ Dumped => out' = <<>>
          ELSE out' # <<>> ]_vars

C1_Witness ==
    /\ Dumped
    /\ lldb_compat
    /\ prev.name = "hexagon_dump"
    /\ prev.wrote
    /\ out = <<>>

\* the window of C2, on machine words: stackBase - 0x10000 <= value <= stackBase + 0x1000
InWindow(value) ==
    /\ WGe(value, WSub(stack_start, Hex(<<0,0,0,1, 0,0,0,0>>)))
    /\ WGe(WAdd(stack_start, Hex(<<0,0,0,0, 1,0,0,0>>)), value)

\* C2: with a nonzero lldb_stack_adjust, adjust_stack_ptrs(value) is
\* value - lldb_stack_adjust exactly when value lies in the window
\* [stack_start - 0x10000, stack_start + 0x1000] (both edges included, all on
\* 32-bit words) and value otherwise; with stack_start 0x10000000 and adjustment
\* 0x100: 0x10000000 -> 0x0FFFFF00, 0x0FFF0000 -> 0x0FFEFF00, 0x0FFEFFFF unchanged.
C2_AdjustWindow ==
    op.name = "adjust_stack_ptrs" /\ lldb_stack_adjust # Zero =>
        /\ op.ret = IF InWindow(op.arg) THEN WSub(op.arg, lldb_stack_adjust)
                                        ELSE op.arg
        /\ (op.ret # op.arg) <=> InWindow(op.arg)
        /\ ( /\ stack_start = Hex(<<1,0,0,0, 0,0,0,0>>)
             /\ lldb_stack_adjust = Hex(<<0,0,0,0, 0,1,0,0>>) ) =>
               /\ op.arg = Hex(<<1,0,0,0, 0,0,0,0>>) => op.ret = Hex(<<0,15,15,15, 15,15,0,0>>)
               /\ op.arg = Hex(<<0,15,15,15, 0,0,0,0>>) => op.ret = Hex(<<0,15,15,14, 15,15,0,0>>)
               /\ op.arg = Hex(<<0,15,15,14, 15,15,15,15>>) => op.ret = op.arg

C2_Witness ==
    /\ op.name = "adjust_stack_ptrs"
    /\ stack_start = Hex(<<1,0,0,0, 0,0,0,0>>)
    /\ lldb_stack_adjust = Hex(<<0,0,0,0, 0,1,0,0>>)
    /\ op.arg = Hex(<<0,15,15,15, 0,0,0,0>>)
    /\ op.ret = Hex(<<0,15,15,14, 15,15,0,0>>)

\* C3: with lldb_stack_adjust = 0, adjust_stack_ptrs returns every value unchanged,
\* so a dump prints every general-purpose register with its stored value
\* (r5 = 0x42 is printed as "r5", 00000042).
C3_NoAdjustment ==
    lldb_stack_adjust = Zero =>
        /\ \A value \in Values \cup {Zero, stack_start} : adjust_stack_ptrs(value) = value
        /\ Dumped /\ out # <<>> =>
              /\ \A i \in 0 .. 31 :
                     out[i + 2] = << hexagon_regnames[i + 1], TARGET_FMT_lx(gpr[i]) >>
              /\ gpr[5] = Hex(<<0,0,0,0, 0,0,4,2>>) =>
                     out[7] = << "r5", <<0,0,0,0, 0,0,4,2>> >>

C3_Witness ==
    /\ Dumped
    /\ out # <<>>
    /\ lldb_stack_adjust = Zero
    /\ gpr[5] = Hex(<<0,0,0,0, 0,0,4,2>>)
    /\ gpr[HEX_REG_SP] = stack_start
    /\ stack_start # Zero

\* C4: read_p3_0 returns the 32-bit word whose byte i (byte 0 the least
\* significant) is the low 8 bits of pred[i], with nothing above bit 31; so the four
\* bytes of the word give back p0..p3 whenever those are byte values.
C4_PackedPredicates ==
    op.name = "read_p3_0" =>
        /\ IsWord(op.ret)
        /\ \A i \in 0 .. NUM_PREGS - 1 : ByteOf(op.ret, i) = pred[i][2] % 256
        /\ (\A i \in 0 .. NUM_PREGS - 1 : pred[i][1] = 0 /\ pred[i][2] < 256) =>
               \A i \in 0 .. NUM_PREGS - 1 : <<0, ByteOf(op.ret, i)>> = pred[i]

C4_Witness ==
    /\ op.name = "read_p3_0"
    /\ pred[0] = One
    /\ pred[1] = Hex(<<0,0,0,0, 0,0,7,15>>)
    /\ pred[2] = Hex(<<0,0,0,0, 0,0,8,0>>)
    /\ pred[3] = Hex(<<0,0,0,0, 0,0,15,15>>)
    /\ op.ret = Hex(<<15,15,8,0, 7,15,0,1>>)

\* the table of section 4.3
ExceptionCause(access_type) ==
    CASE access_type = "MMU_INST_FETCH" -> "HEX_EXCP_FETCH_NO_UPAGE"
      [] access_type = "MMU_DATA_LOAD"  -> "HEX_EXCP_PRIV_NO_UREAD"
      [] access_type = "MMU_DATA_STORE" -> "HEX_EXCP_PRIV_NO_UWRITE"

\* C5: hexagon_tlb_fill records the cause of its access kind (fetch, load and store
\* each get another one), calls cpu_loop_exit_restore exactly once, with the
\* retaddr it was given, and does not return to its caller.
C5_FaultClassified ==
    op.name = "hexagon_tlb_fill" =>
        /\ exception_index = ExceptionCause(op.arg[1])
        /\ \A other \in MMUAccessType \ {op.arg[1]} :
               exception_index # ExceptionCause(other)
        /\ calls = << <<"cpu_loop_exit_restore", op.arg[2]>> >>
        /\ ~op.returned

C5_Witness ==
    /\ op.name = "hexagon_tlb_fill"
    /\ op.arg = <<"MMU_DATA_LOAD", "retaddr_2">>
    /\ exception_index = "HEX_EXCP_PRIV_NO_UREAD"
    /\ gpr[HEX_REG_PC] # Zero

Normalized(status) ==
    /\ status.default_nan_mode = 1
    /\ status.float_detect_tininess = "float_tininess_before_rounding"

\* the most recent operation ran the reset handler: hexagon_cpu_reset itself, or
\* the cpu_reset of a realize
DidReset ==
    \/ op.name = "hexagon_cpu_reset"
    \/ /\ op.name = "hexagon_cpu_realize"
       /\ \E k \in 1 .. Len(calls) : calls[k][1] = "cpu_reset"

\* C6: after every reset, whatever fp_status was before and whether or not the
\* core is realized, default-NaN mode is on and tininess is detected before rounding.
C6_ResetNormalizesFp == DidReset => Normalized(fp_status)

C6_Witness ==
    /\ op.name = "hexagon_cpu_reset"
    /\ realized > 0
    /\ Normalized(fp_status)

\* C7: a reset changes no general-purpose or control register (the program counter
\* included), no predicate, not last_pc_dumped and not lldb_compat,
\* lldb_stack_adjust or stack_start; only fp_status may change.
C7_ResetFrame ==
    [][ op'.name = "hexagon_cpu_reset" =>
          UNCHANGED <<gpr, pred, last_pc_dumped, stack_start, lldb_compat,
                      lldb_stack_adjust>> ]_vars

C7_Witness ==
    /\ op.name = "hexagon_cpu_reset"
    /\ gpr[5] # Zero
    /\ gpr[HEX_REG_PC] # Zero
    /\ pred[0] # Zero
    /\ last_pc_dumped # Zero
    /\ lldb_stack_adjust # Zero

\* the most recent operation was a realize that ended without an error
RealizeSucceeded == op.name = "hexagon_cpu_realize" /\ errp = "NULL"

C9_ResetIsLastStep ==
    op.name = "hexagon_cpu_realize" /\ op.arg[1] = "NULL" =>
        /\ stack_start = gpr[HEX_REG_SP]
        /\ calls[Len(calls)][1] = "cpu_reset"

\* C9, amended: a realize whose cpu_exec_realizefn succeeds then calls, in this
\* order, qemu_init_vcpu (scheduling the core), cpu_reset (exactly once) and the
\* parent's realize, which is the last step; it does not write stack_start.
C9_RealizeOrder ==
    [][ op'.name = "hexagon_cpu_realize" /\ op'.arg[1] = "NULL" =>
          /\ calls' = << <<"cpu_exec_realizefn", "">>, <<"qemu_init_vcpu", "">>,
                         <<"cpu_reset", "">>, <<"parent_realize", "">> >>
          /\ Normalized(fp_status')
          /\ UNCHANGED stack_start ]_vars

C9_Witness ==
    /\ RealizeSucceeded
    /\ gpr[HEX_REG_SP] # stack_start
    /\ calls[3][1] = "cpu_reset"

\* C10: a dump changes no register, predicate, fp_status or property, also when
\* lldb_stack_adjust is nonzero and registers lie in the window; the one field it
\* may change is last_pc_dumped.
C10_DumpFrame ==
    [][ op'.name = "hexagon_dump" =>
          UNCHANGED <<gpr, pred, fp_status, stack_start, lldb_compat,
                      lldb_stack_adjust, exception_index, lifecycle>> ]_vars

C10_Witness ==
    /\ Dumped
    /\ out # <<>>
    /\ lldb_stack_adjust # Zero
    /\ gpr[HEX_REG_SP] = stack_start
    /\ out[HEX_REG_SP + 2] # << "r29", TARGET_FMT_lx(gpr[HEX_REG_SP]) >>
    /\ Normalized(fp_status)

\* C11: hexagon_cpu_set_pc(value) and hexagon_cpu_synchronize_from_tb(tb) store the
\* given value, cut to 32 bits, in the program counter whatever the state, and
\* change no other register, no predicate, not fp_status, not last_pc_dumped and no
\* property.
C11_SetPcFrame ==
    [][ /\ op'.name = "hexagon_cpu_set_pc" =>
              gpr' = [gpr EXCEPT ![HEX_REG_PC] = << op'.arg[3], op'.arg[4] >>]
        /\ op'.name = "hexagon_cpu_synchronize_from_tb" =>
              gpr' = [gpr EXCEPT ![HEX_REG_PC] = op'.arg]
        /\ op'.name \in {"hexagon_cpu_set_pc", "hexagon_cpu_synchronize_from_tb"} =>
              UNCHANGED <<pred, fp_status, last_pc_dumped, stack_start, lldb_compat,
                          lldb_stack_adjust, exception_index, lifecycle>> ]_vars

C11_Witness ==
    /\ op.name = "hexagon_cpu_set_pc"
    /\ op.arg = <<0, 1, 0, 66>>
    /\ gpr[HEX_REG_PC] = Hex(<<0,0,0,0, 0,0,4,2>>)
    /\ gpr[5] # Zero
    /\ last_pc_dumped = Hex(<<1,0,0,0, 0,0,0,0>>)
    /\ pred[0] # Zero

\* C12 as stated: every dump that writes lines, with lldb_compat set or clear,
\* leaves last_pc_dumped equal to the program counter.
C12_WritingDumpRecordsPc ==
    Dumped /\ out # <<>> => last_pc_dumped = gpr[HEX_REG_PC]

\* C12, amended: a dump that writes lines leaves last_pc_dumped equal to the
\* program counter when lldb_compat is set; when lldb_compat is clear it leaves
\* last_pc_dumped as it was.
C12_WritingDumpRecordsPcInCompat ==
    [][ op'.name = "hexagon_dump" /\ out' # <<>> =>
          IF lldb_compat THEN last_pc_dumped' = gpr'[HEX_REG_PC]
                         ELSE last_pc_dumped' = last_pc_dumped ]_vars

C12_Witness ==
    /\ Dumped
    /\ out # <<>>
    /\ ~lldb_compat
    /\ gpr[HEX_REG_PC] # Zero
    /\ last_pc_dumped = Zero

\* the line of the dump that starts with name
LineOf(name) == out[CHOOSE k \in 1 .. Len(out) : out[k][1] = name]

\* C13 as stated: with a nonzero lldb_stack_adjust and the program counter in the
\* window, the pc line of a dump shows pc - lldb_stack_adjust.
C13_PcLineAdjusted ==
    Dumped /\ out # <<>> /\ lldb_stack_adjust # Zero /\ InWindow(gpr[HEX_REG_PC]) =>
        LineOf("pc") = << "pc", TARGET_FMT_lx(WSub(gpr[HEX_REG_PC], lldb_stack_adjust)) >>

\* C13, amended: the pc line of a dump shows the stored program counter, never an
\* adjusted one, also with a nonzero lldb_stack_adjust and the program counter in
\* the window; only r0..r31 go through adjust_stack_ptrs.
C13_PcLineNotAdjusted ==
    Dumped /\ out # <<>> =>
        /\ LineOf("pc") = << "pc", TARGET_FMT_lx(gpr[HEX_REG_PC]) >>
        /\ LineOf("r29") = << "r29", TARGET_FMT_lx(adjust_stack_ptrs(gpr[HEX_REG_SP])) >>

C13_Witness ==
    /\ Dumped
    /\ out # <<>>
    /\ lldb_stack_adjust # Zero
    /\ InWindow(gpr[HEX_REG_PC])
    /\ gpr[HEX_REG_SP] = gpr[HEX_REG_PC]
    /\ LineOf("pc") # LineOf("r29")
    /\ LineOf("pc")[2] = <<1,0,0,0, 0,0,0,0>>
    /\ LineOf("r29")[2] = <<0,15,15,15, 15,15,0,0>>

\* the names of the lines of a complete dump, in order
DumpShape ==
    << "General Purpose Registers = {" >>
    \o [i \in 1 .. 32 |-> hexagon_regnames[i]]
    \o << "sa0", "lc0", "sa1", "lc1", "m0", "m1", "usr", "p3_0", "gp", "ugp", "pc",
          "cause", "badva", "cs0", "cs1", "}" >>

\* C14: a dump writes either no line at all (when it is suppressed) or exactly the
\* header, r0..r31 in index order, sa0, lc0, sa1, lc1, m0, m1, usr, p3_0, gp, ugp,
\* pc, the four placeholders cause = 0xdb, badva = 0, cs0 = 0, cs1 = 0 (the same in
\* every state and for either lldb_compat) and the footer.
C14_DumpShape ==
    Dumped =>
        \/ /\ out = <<>>
           /\ lldb_compat
        \/ /\ [k \in 1 .. Len(out) |-> out[k][1]] = DumpShape
           /\ out[1][2] = <<>>
           /\ out[Len(out)][2] = <<>>
           /\ LineOf("cause")[2] = <<0,0,0,0, 0,0,13,11>>
           /\ LineOf("badva")[2] = <<0,0,0,0, 0,0,0,0>>
           /\ LineOf("cs0")[2] = <<0,0,0,0, 0,0,0,0>>
           /\ LineOf("cs1")[2] = <<0,0,0,0, 0,0,0,0>>

C14_Witness ==
    /\ Dumped
    /\ Len(out) = Len(DumpShape)
    /\ lldb_compat
    /\ gpr[5] # Zero
    /\ gpr[HEX_REG_PC] # Zero
    /\ pred[NUM_PREGS - 1] # Zero
    /\ LineOf("p3_0")[2] = <<15,15,0,0, 0,0,0,0>>

\* C15: when cpu_exec_realizefn reports an error, hexagon_cpu_realize hands that
\* error to its caller and returns at once: no qemu_init_vcpu, no cpu_reset, no
\* parent realize, and the registers, the predicates and fp_status stay as they were.
C15_RealizeErrorPath ==
    [][ op'.name = "hexagon_cpu_realize" /\ op'.arg[1] # "NULL" =>
          /\ errp' = op'.arg[1]
          /\ calls' = << <<"cpu_exec_realizefn", "">> >>
          /\ UNCHANGED <<gpr, pred, fp_status, last_pc_dumped, stack_start,
                         lldb_compat, lldb_stack_adjust, realized>> ]_vars

C15_Witness ==
    /\ op.name = "hexagon_cpu_realize"
    /\ op.arg[1] = "error"
    /\ errp = "error"
    /\ ~Normalized(fp_status)
    /\ gpr[HEX_REG_SP] # Zero
    /\ realized = 0

\* C16: with lldb_compat set, after any run of register writes, program-counter
\* updates, resets and dumps, a dump writes lines exactly when the program counter
\* differs from the one at the most recent earlier dump (from 0 when there was
\* none): a dump at a program counter seen before the last dump writes again, and
\* the first dump of a fresh core at program counter 0 writes nothing.
C16_DumpIffPcMoved ==
    [][ op'.name = "hexagon_dump" /\ lldb_compat =>
          ((out' # <<>>) <=> (gpr[HEX_REG_PC] # dump_pc)) ]_vars

C16_Witness ==
    /\ Dumped
    /\ lldb_compat
    /\ out # <<>>
    /\ gpr[HEX_REG_PC] = Zero
    /\ Normalized(fp_status)
    /\ gpr[5] # Zero

\* C17: with lldb_compat set, last_pc_dumped equals the program counter when a
\* dump returns, whether the dump wrote lines or was suppressed; with lldb_compat
\* clear a dump does not change last_pc_dumped.
C17_LastPcAfterDump ==
    [][ op'.name = "hexagon_dump" =>
          IF lldb_compat THEN last_pc_dumped' = gpr'[HEX_REG_PC]
                         ELSE UNCHANGED last_pc_dumped ]_vars

C17_Witness ==
    /\ Dumped
    /\ lldb_compat
    /\ out = <<>>
    /\ gpr[HEX_REG_PC] # Zero
    /\ last_pc_dumped = gpr[HEX_REG_PC]

\* stack_start - 0x10000 or stack_start + 0x1000 leaves the 32-bit range
WindowWraps ==
    \/ ~WGe(stack_start, Hex(<<0,0,0,1, 0,0,0,0>>))
    \/ WGe(stack_start, Hex(<<15,15,15,15, 15,0,0,0>>))

\* C18: the window bounds are computed modulo 2^32; when stack_start - 0x10000
\* underflows (stack_start < 0x10000, the default 0 included) or
\* stack_start + 0x1000 overflows (stack_start >= 0xFFFFF000), adjust_stack_ptrs
\* returns every value unchanged, also with a nonzero lldb_stack_adjust.
C18_WrappedWindowIsEmpty ==
    op.name = "adjust_stack_ptrs" /\ WindowWraps => op.ret = op.arg

C18_Witness ==
    /\ op.name = "adjust_stack_ptrs"
    /\ stack_start = Zero
    /\ lldb_stack_adjust # Zero
    /\ op.arg = Hex(<<0,0,0,0, 1,0,0,0>>)
    /\ op.ret = op.arg

====
